---- MODULE Spec2Model ----
(***************************************************************************)
(* A model of StanfordCPPLib/graphics/gobjects.cpp: the GObject base       *)
(* class (position, size, opacity, transform flag, parent back-reference)  *)
(* and GCompound (ordered child list, z-order, aggregate bounds, hit       *)
(* testing, repaint propagation to the Qt GUI thread), and the hit tests   *)
(* and accessors of GLine, GPolygon, GArc, GOval, GRoundRect and GImage.   *)
(*                                                                         *)
(* Coordinates are integers (the doubles of the source restricted to       *)
(* whole values); opacity is counted in steps of 1/OpacitySteps.           *)
(***************************************************************************)
EXTENDS Integers, Sequences, FiniteSets, TLC

\* ------------------------------------------------------------------ bounds
NumShapes == 2          \* GRect objects the client has constructed (plus one GArc)
NumCompounds == 2       \* GCompound objects the client has constructed
MaxLen == 3             \* cap on the length of a _contents vector
GeomLen == 2            \* the same cap where positions vary as well
SmallLen == 1           \* the same cap where opacities vary as well
MaxQueue == 2           \* cap on closures waiting for the Qt GUI thread
MaxCoord == 2           \* coordinates and sizes passed by the client: 0..MaxCoord
OpacitySteps == 2       \* opacity 1.0 is OpacitySteps steps
ImageSize == 2          \* the GImage is ImageSize pixels wide and high
MaxVertices == 4        \* cap on the length of GPolygon::_vertices
MaxEighths == 8         \* start and sweep angles are 45 k, |k| <= MaxEighths

\* ------------------------------------------------------- program constants
NULL == 0               \* nullptr
BIG == 1000000000       \* stands for the 1E20 sentinel of GCompound::getBounds
LINE_TOLERANCE_2 == 3   \* twice LINE_TOLERANCE, which is 1.5
ARC_TOLERANCE_2 == 5    \* twice ARC_TOLERANCE, which is 2.5

Shapes == 1..NumShapes
Compounds == (NumShapes + 1)..(NumShapes + NumCompounds)
Arcs == {NumShapes + NumCompounds + 1}     \* one GArc, never put into a container
Lines == {NumShapes + NumCompounds + 2}    \* one GLine
Polygons == {NumShapes + NumCompounds + 3} \* one GPolygon
Ovals == {NumShapes + NumCompounds + 4}    \* one GOval
RoundRects == {NumShapes + NumCompounds + 5}   \* one GRoundRect
Images == {NumShapes + NumCompounds + 6}   \* one GImage
Objs == Shapes \cup Compounds \cup Arcs \cup Lines \cup Polygons \cup Ovals
            \cup RoundRects \cup Images
Coords == 0..MaxCoord
PolyCoords == {5 * k : k \in 0..MaxCoord}     \* the grid GPolygon and GLine are on
PolyProbes == {5 * k : k \in (-1)..(MaxCoord + 1)} \cup {3, 7}
Rgb == {0, 1}                              \* pixel values
Indeterminate == -1                        \* a pixel nothing was stored in yet
Pixels == (0..(ImageSize - 1)) \X (0..(ImageSize - 1))
GuiThread == "gui"
Threads == {"gui", "student"}

VARIABLES
    contents,       \* GCompound::_contents : Compounds -> Seq(Objs)
    parent,         \* GObject::_parent     : Objs -> Compounds \cup {NULL}
    x, y,           \* GObject::_x, _y
    width, height,  \* GObject::_width, _height
    transformed,    \* GObject::_transformed
    opacity,        \* GObject::_opacity, in steps of 1/OpacitySteps
    autoRepaint,    \* GCompound::_autoRepaint
    widget,         \* GCompound::_widget is non-null
    guiQueue,       \* closures handed to GThread::runOnQtGuiThread, not yet run
    alive,          \* FALSE once the process has been killed by a null dereference
    sinceReset,     \* history: rotate/scale called since construction/resetTransform
    last,           \* history: the call that produced this state and what it did
    line_dx, line_dy,   \* GLine::_dx, _dy
    vertices,       \* GPolygon::_vertices
    poly_cx, poly_cy,   \* GPolygon::_cx, _cy
    start, sweep,   \* GArc::_start, _sweep, in degrees
    fillFlag,       \* GObject::_fillFlag
    corner,         \* GRoundRect::_corner
    qimage          \* the pixels of GImage::_qimage

treeVars == <<contents, parent>>
geomVars == <<x, y, width, height>>
attrVars == <<transformed, opacity, sinceReset>>
paintVars == <<autoRepaint, widget>>
lineVars == <<line_dx, line_dy>>
arcVars == <<start, sweep, fillFlag>>
polyVars == <<vertices, poly_cx, poly_cy>>
shapeVars == <<lineVars, polyVars, arcVars, corner, qimage>>
vars == <<contents, parent, x, y, width, height, transformed, opacity,
          autoRepaint, widget, guiQueue, alive, sinceReset, last,
          line_dx, line_dy, vertices, poly_cx, poly_cy, start, sweep, fillFlag,
          corner, qimage>>

\* ----------------------------------------------------------- value types
GRectangle(px, py, w, h) == [x |-> px, y |-> py, width |-> w, height |-> h]

\* GRectangle::contains (gtypes): half-open box test
GRectangle_contains(r, px, py) ==
    /\ px >= r.x
    /\ py >= r.y
    /\ px < r.x + r.width
    /\ py < r.y + r.height

\* GRectangle::enlargedBy (gtypes)
enlargedBy(r, amount) ==
    GRectangle(r.x - amount, r.y - amount, r.width + 2 * amount, r.height + 2 * amount)

min(a, b) == IF a < b THEN a ELSE b
max(a, b) == IF a > b THEN a ELSE b

\* Vector<GObject*> (collections/vector.h), indices of the source are 0-based
Vector_size(v) == Len(v)
Vector_get(v, i) == v[i + 1]
Vector_add(v, e) == Append(v, e)
Vector_remove(v, i) == SubSeq(v, 1, i) \o SubSeq(v, i + 2, Len(v))
Vector_insert(v, i, e) == SubSeq(v, 1, i) \o <<e>> \o SubSeq(v, i + 1, Len(v))
Range(v) == {v[i] : i \in 1..Len(v)}

\* ------------------------------------------------------------- accessors
getParent(o) == parent[o]
getX(o) == x[o]
getY(o) == y[o]
getWidth(o) == width[o]
getHeight(o) == height[o]
getLineWidth(o) == 1

\* GCompound::findGObject: the first index holding gobj, -1 when absent
RECURSIVE findFrom(_, _, _)
findFrom(v, gobj, i) ==
    IF i >= Vector_size(v) THEN -1
    ELSE IF Vector_get(v, i) = gobj THEN i
    ELSE findFrom(v, gobj, i + 1)

findGObject(c, gobj) == findFrom(contents[c], gobj, 0)

\* ---------------------------------------------------------------- bounds
GObject_getBounds(o) == GRectangle(getX(o), getY(o), getWidth(o), getHeight(o))

RECURSIVE getBounds(_)
RECURSIVE boundsLoop(_, _, _)

\* the loop of GCompound::getBounds; acc = <<xMin, yMin, xMax, yMax>>
boundsLoop(v, i, acc) ==
    IF i >= Vector_size(v) THEN acc
    ELSE LET bounds == getBounds(Vector_get(v, i))
         IN  boundsLoop(v, i + 1,
                 <<min(acc[1], bounds.x), min(acc[2], bounds.y),
                   max(acc[3], bounds.x), max(acc[4], bounds.y)>>)

GCompound_getBounds(c) ==
    LET m == boundsLoop(contents[c], 0, <<BIG, BIG, -BIG, -BIG>>)
    IN  GRectangle(m[1] + getX(c), m[2] + getY(c), m[3] - m[1], m[4] - m[2])

\* virtual GObject::getBounds
getBounds(o) == IF o \in Compounds THEN GCompound_getBounds(o) ELSE GObject_getBounds(o)

\* ----------------------------------------------------------- hit testing
GObject_contains(o, px, py) == GRectangle_contains(GObject_getBounds(o), px, py)

RECURSIVE contains(_, _, _)
RECURSIVE containsLoop(_, _, _, _)

\* the loop of GCompound::contains
containsLoop(v, i, px, py) ==
    IF i >= Vector_size(v) THEN FALSE
    ELSE IF contains(Vector_get(v, i), px, py) THEN TRUE
    ELSE containsLoop(v, i + 1, px, py)

GCompound_contains(c, px, py) == containsLoop(contents[c], 0, px, py)

\* virtual GObject::contains
contains(o, px, py) ==
    IF o \in Compounds THEN GCompound_contains(o, px, py) ELSE GObject_contains(o, px, py)

\* the loop of GCompound::getElementAt
RECURSIVE elementLoop(_, _, _, _)
elementLoop(v, i, px, py) ==
    IF i >= Vector_size(v) THEN NULL
    ELSE IF Vector_get(v, i) # NULL /\ contains(Vector_get(v, i), px, py)
         THEN Vector_get(v, i)
    ELSE elementLoop(v, i + 1, px, py)

\* a variant with a fault: the scan runs from the front of the z-order
RECURSIVE elementLoopDown(_, _, _, _)
elementLoopDown(v, i, px, py) ==
    IF i < 0 THEN NULL
    ELSE IF Vector_get(v, i) # NULL /\ contains(Vector_get(v, i), px, py)
         THEN Vector_get(v, i)
    ELSE elementLoopDown(v, i - 1, px, py)

GCompound_getElementAt_topmost(c, px, py) ==
    elementLoopDown(contents[c], Vector_size(contents[c]) - 1, px, py)

GCompound_getElementAt(c, px, py) == elementLoop(contents[c], 0, px, py)

\* ---------------------------------------------------- repaint propagation
\* What a call hands to the widget: painted at once on the GUI thread, or a
\* closure [this] / [this, x, y, width, height] queued for it.
NoEffect == [paint |-> <<>>, enq |-> <<>>]
Closure(c, args) == [c |-> c, args |-> args]

\* a closure together with the thread that painted it (in paint) or that
\* handed it to GThread::runOnQtGuiThread (in enq and in guiQueue)
Request(th, c, args) == [c |-> c, args |-> args, thread |-> th]

\* the effects of two calls made one after the other
Both(e1, e2) == [paint |-> e1.paint \o e2.paint, enq |-> e1.enq \o e2.enq]

\* a variant with a fault: the widget is painted on the calling thread
GCompound_repaint_inCaller(th, c, args) ==
    IF ~widget[c] THEN NoEffect
    ELSE [paint |-> <<Request(th, c, args)>>, enq |-> <<>>]

\* GCompound::repaint (args = <<>>) and GCompound::repaintRegion
GCompound_repaint(th, c, args) ==
    IF ~widget[c] THEN NoEffect
    ELSE IF th = GuiThread
         THEN [paint |-> <<Request(th, c, args)>>, enq |-> <<>>]
         ELSE [paint |-> <<>>, enq |-> <<Request(th, c, args)>>]

\* GCompound::conditionalRepaint and conditionalRepaintRegion
conditionalRepaint(th, c, args) ==
    IF autoRepaint[c] THEN GCompound_repaint(th, c, args) ELSE NoEffect

RegionArgs(r) == <<r.x, r.y, r.width, r.height>>

\* the region add and removeAt repaint
DamageOf(gobj) == RegionArgs(enlargedBy(getBounds(gobj), (getLineWidth(gobj) + 1) \div 2))

\* the walk of GObject::repaint to the outermost GCompound
RECURSIVE rootOf(_)
rootOf(c) == IF getParent(c) # NULL THEN rootOf(getParent(c)) ELSE c

\* the containers reachable from o through _contents, o included
RECURSIVE below(_)
below(o) ==
    IF o \in Compounds
    THEN {o} \cup UNION {below(contents[o][i]) : i \in 1..Len(contents[o])}
    ELSE {o}

\* ------------------------------------------------------------ bookkeeping
\* Every call ends here: closures are queued, and the call is recorded.
\* reqs are the conditionalRepaint / conditionalRepaintRegion calls it made.
Record(op, obj, arg, ok, reqs, eff, res) ==
    /\ alive
    /\ Len(guiQueue) + Len(eff.enq) <= MaxQueue
    /\ guiQueue' = guiQueue \o eff.enq
    /\ last' = [op |-> op, obj |-> obj, arg |-> arg, ok |-> ok, reqs |-> reqs,
                paint |-> eff.paint, enq |-> eff.enq, res |-> res]

\* a call that threw (error(), require::nonNull, require::inRange, Vector index)
Throw(op, obj, arg) ==
    /\ Record(op, obj, arg, FALSE, <<>>, NoEffect, NULL)
    /\ UNCHANGED <<treeVars, geomVars, attrVars, paintVars, shapeVars, alive>>

\* a call that returned without touching anything
Nothing(op, obj, arg) ==
    /\ Record(op, obj, arg, TRUE, <<>>, NoEffect, NULL)
    /\ UNCHANGED <<treeVars, geomVars, attrVars, paintVars, shapeVars, alive>>

\* a call on c that ends in c.conditionalRepaint() / conditionalRepaintRegion
Repainted(op, th, c, obj, arg, args) ==
    Record(op, obj, arg, TRUE, <<Closure(c, args)>>, conditionalRepaint(th, c, args), NULL)

\* ------------------------------------------------------ GCompound: add/remove
\* a variant with a fault: the new child goes to index 0
GCompound_add_behind(th, c, gobj) ==
    IF gobj = NULL THEN Throw("add", c, gobj)
    ELSE /\ Vector_size(contents[c]) < MaxLen
         /\ c \notin below(gobj)
         /\ contents' = [contents EXCEPT ![c] = Vector_insert(@, 0, gobj)]
         /\ parent' = [parent EXCEPT ![gobj] = c]
         /\ Repainted("add", th, c, c, gobj, DamageOf(gobj))
         /\ UNCHANGED <<geomVars, attrVars, paintVars, shapeVars, alive>>

GCompound_add(th, c, gobj) ==
    IF gobj = NULL THEN Throw("add", c, gobj)
    ELSE /\ Vector_size(contents[c]) < MaxLen
         /\ c \notin below(gobj)
         /\ contents' = [contents EXCEPT ![c] = Vector_add(@, gobj)]
         /\ parent' = [parent EXCEPT ![gobj] = c]
         /\ Repainted("add", th, c, c, gobj, DamageOf(gobj))
         /\ UNCHANGED <<geomVars, attrVars, paintVars, shapeVars, alive>>

\* GCompound::add(gobj, x, y): setLocation, whose repaint goes to the
\* outermost container gobj is in before the call, then add(gobj), whose
\* region is taken from the bounds gobj has after the move
GCompound_add_at(th, c, gobj, px, py) ==
    IF gobj = NULL THEN Throw("add", c, gobj)
    ELSE /\ Vector_size(contents[c]) < MaxLen
         /\ c \notin below(gobj)
         /\ x' = [x EXCEPT ![gobj] = px]
         /\ y' = [y EXCEPT ![gobj] = py]
         /\ contents' = [contents EXCEPT ![c] = Vector_add(@, gobj)]
         /\ parent' = [parent EXCEPT ![gobj] = c]
         /\ UNCHANGED <<width, height, attrVars, paintVars, shapeVars, alive>>
         /\ LET old == getParent(gobj)
                region == DamageOf(gobj)'
                moved == IF old # NULL THEN <<Closure(rootOf(old), <<>>)>> ELSE <<>>
                first == IF old # NULL THEN conditionalRepaint(th, rootOf(old), <<>>)
                         ELSE NoEffect
            IN  Record("add", c, gobj, TRUE, moved \o <<Closure(c, region)>>,
                       Both(first, conditionalRepaint(th, c, region)), NULL)

GCompound_removeAt(th, c, index) ==
    IF index < 0 \/ index >= Vector_size(contents[c]) THEN Throw("removeAt", c, index)
    ELSE LET gobj == Vector_get(contents[c], index)
         IN  /\ contents' = [contents EXCEPT ![c] = Vector_remove(@, index)]
             /\ parent' = [parent EXCEPT ![gobj] = NULL]
             /\ Repainted("removeAt", th, c, c, index, DamageOf(gobj))
             /\ UNCHANGED <<geomVars, attrVars, paintVars, shapeVars, alive>>

GCompound_remove(th, c, gobj) ==
    IF gobj = NULL THEN Throw("remove", c, gobj)
    ELSE LET index == findGObject(c, gobj)
         IN  IF index # -1
             THEN /\ contents' = [contents EXCEPT ![c] = Vector_remove(@, index)]
                  /\ parent' = [parent EXCEPT ![gobj] = NULL]
                  /\ Repainted("remove", th, c, c, gobj, DamageOf(gobj))
                  /\ UNCHANGED <<geomVars, attrVars, paintVars, shapeVars, alive>>
             ELSE Nothing("remove", c, gobj)

\* a variant with a fault: the children keep their parent
GCompound_removeAll_attached(th, c) ==
    LET wasEmpty == Vector_size(contents[c]) = 0
    IN  /\ contents' = [contents EXCEPT ![c] = <<>>]
        /\ IF ~wasEmpty
           THEN Repainted("removeAll", th, c, c, NULL, <<>>)
           ELSE Record("removeAll", c, NULL, TRUE, <<>>, NoEffect, NULL)
        /\ UNCHANGED <<parent, geomVars, attrVars, paintVars, shapeVars, alive>>

GCompound_removeAll(th, c) ==
    LET wasEmpty == Vector_size(contents[c]) = 0
        contentsCopy == contents[c]
    IN  /\ contents' = [contents EXCEPT ![c] = <<>>]
        /\ parent' = [o \in Objs |-> IF o \in Range(contentsCopy) THEN NULL ELSE parent[o]]
        /\ IF ~wasEmpty
           THEN Repainted("removeAll", th, c, c, NULL, <<>>)
           ELSE Record("removeAll", c, NULL, TRUE, <<>>, NoEffect, NULL)
        /\ UNCHANGED <<geomVars, attrVars, paintVars, shapeVars, alive>>

\* --------------------------------------------------------- GCompound: z-order
GCompound_sendBackward(th, c, gobj) ==
    IF gobj = NULL THEN Throw("sendBackward", c, gobj)
    ELSE LET index == findGObject(c, gobj)
         IN  IF index = -1 THEN Nothing("sendBackward", c, gobj)
             ELSE IF index # 0
             THEN /\ contents' = [contents EXCEPT
                        ![c] = Vector_insert(Vector_remove(@, index), index - 1, gobj)]
                  /\ Repainted("sendBackward", th, c, c, gobj, <<>>)
                  /\ UNCHANGED <<parent, geomVars, attrVars, paintVars, shapeVars, alive>>
             ELSE Nothing("sendBackward", c, gobj)

\* a variant with a fault: the child is put back where it was taken from
GCompound_sendForward_inPlace(th, c, gobj) ==
    IF gobj = NULL THEN Throw("sendForward", c, gobj)
    ELSE LET index == findGObject(c, gobj)
         IN  IF index = -1 THEN Nothing("sendForward", c, gobj)
             ELSE IF index # Vector_size(contents[c]) - 1
             THEN /\ contents' = [contents EXCEPT
                        ![c] = Vector_insert(Vector_remove(@, index), index, gobj)]
                  /\ Repainted("sendForward", th, c, c, gobj, <<>>)
                  /\ UNCHANGED <<parent, geomVars, attrVars, paintVars, shapeVars, alive>>
             ELSE Nothing("sendForward", c, gobj)

GCompound_sendForward(th, c, gobj) ==
    IF gobj = NULL THEN Throw("sendForward", c, gobj)
    ELSE LET index == findGObject(c, gobj)
         IN  IF index = -1 THEN Nothing("sendForward", c, gobj)
             ELSE IF index # Vector_size(contents[c]) - 1
             THEN /\ contents' = [contents EXCEPT
                        ![c] = Vector_insert(Vector_remove(@, index), index + 1, gobj)]
                  /\ Repainted("sendForward", th, c, c, gobj, <<>>)
                  /\ UNCHANGED <<parent, geomVars, attrVars, paintVars, shapeVars, alive>>
             ELSE Nothing("sendForward", c, gobj)

GCompound_sendToBack(th, c, gobj) ==
    IF gobj = NULL THEN Throw("sendToBack", c, gobj)
    ELSE LET index == findGObject(c, gobj)
         IN  IF index = -1 THEN Nothing("sendToBack", c, gobj)
             ELSE IF index # 0
             THEN /\ contents' = [contents EXCEPT
                        ![c] = Vector_insert(Vector_remove(@, index), 0, gobj)]
                  /\ Repainted("sendToBack", th, c, c, gobj, <<>>)
                  /\ UNCHANGED <<parent, geomVars, attrVars, paintVars, shapeVars, alive>>
             ELSE Nothing("sendToBack", c, gobj)

GCompound_sendToFront(th, c, gobj) ==
    IF gobj = NULL THEN Throw("sendToFront", c, gobj)
    ELSE LET index == findGObject(c, gobj)
         IN  IF index = -1 THEN Nothing("sendToFront", c, gobj)
             ELSE IF index # Vector_size(contents[c]) - 1
             THEN /\ contents' = [contents EXCEPT
                        ![c] = Vector_add(Vector_remove(@, index), gobj)]
                  /\ Repainted("sendToFront", th, c, c, gobj, <<>>)
                  /\ UNCHANGED <<parent, geomVars, attrVars, paintVars, shapeVars, alive>>
             ELSE Nothing("sendToFront", c, gobj)

\* ----------------------------------------------------------- GObject: z-order
\* each delegates to the parent, and does nothing without one
GObject_sendBackward(th, o) ==
    IF getParent(o) # NULL THEN GCompound_sendBackward(th, getParent(o), o)
    ELSE Nothing("GObject::sendBackward", o, NULL)

GObject_sendForward(th, o) ==
    IF getParent(o) # NULL THEN GCompound_sendForward(th, getParent(o), o)
    ELSE Nothing("GObject::sendForward", o, NULL)

GObject_sendToBack(th, o) ==
    IF getParent(o) # NULL THEN GCompound_sendToBack(th, getParent(o), o)
    ELSE Nothing("GObject::sendToBack", o, NULL)

GObject_sendToFront(th, o) ==
    IF getParent(o) # NULL THEN GCompound_sendToFront(th, getParent(o), o)
    ELSE Nothing("GObject::sendToFront", o, NULL)

\* ------------------------------------------------------ GObject: mutators
\* GObject::repaint at the end of a mutator of o: the outermost container of
\* o, if o has a parent, is asked to repaint itself
ObjRepainted(op, th, o, arg) ==
    IF getParent(o) # NULL
    THEN Repainted(op, th, rootOf(getParent(o)), o, arg, <<>>)
    ELSE Record(op, o, arg, TRUE, <<>>, NoEffect, NULL)

\* require::inRange (require.h): both ends belong to the range
inRange(value, lo, hi) == value >= lo /\ value <= hi

GObject_setLocation(th, o, px, py) ==
    /\ x' = [x EXCEPT ![o] = px]
    /\ y' = [y EXCEPT ![o] = py]
    /\ ObjRepainted("setLocation", th, o, <<px, py>>)
    /\ UNCHANGED <<treeVars, width, height, attrVars, paintVars, shapeVars, alive>>

GObject_setX(th, o, px) == GObject_setLocation(th, o, px, getY(o))

GObject_setY(th, o, py) == GObject_setLocation(th, o, getX(o), py)

GObject_setBounds(th, o, px, py, w, h) ==
    /\ x' = [x EXCEPT ![o] = px]
    /\ y' = [y EXCEPT ![o] = py]
    /\ width' = [width EXCEPT ![o] = w]
    /\ height' = [height EXCEPT ![o] = h]
    /\ ObjRepainted("setBounds", th, o, <<px, py, w, h>>)
    /\ UNCHANGED <<treeVars, attrVars, paintVars, shapeVars, alive>>

GArc_setFrameRectangle(th, o, px, py, w, h) == GObject_setBounds(th, o, px, py, w, h)

\* a variant with a fault: the transformed flag is not looked at
GObject_setSize_unchecked(th, o, w, h) ==
    /\ width' = [width EXCEPT ![o] = w]
    /\ height' = [height EXCEPT ![o] = h]
    /\ ObjRepainted("setSize", th, o, <<w, h>>)
    /\ UNCHANGED <<treeVars, x, y, attrVars, paintVars, shapeVars, alive>>

GObject_setSize(th, o, w, h) ==
    IF transformed[o] THEN Throw("setSize", o, <<w, h>>)
    ELSE /\ width' = [width EXCEPT ![o] = w]
         /\ height' = [height EXCEPT ![o] = h]
         /\ ObjRepainted("setSize", th, o, <<w, h>>)
         /\ UNCHANGED <<treeVars, x, y, attrVars, paintVars, shapeVars, alive>>

GObject_setWidth(th, o, w) == GObject_setSize(th, o, w, getHeight(o))

GObject_setHeight(th, o, h) == GObject_setSize(th, o, getWidth(o), h)

\* the QTransform itself is not kept: only whether one was applied
GObject_rotate(th, o, theta) ==
    /\ transformed' = [transformed EXCEPT ![o] = TRUE]
    /\ sinceReset' = [sinceReset EXCEPT ![o] = TRUE]
    /\ ObjRepainted("rotate", th, o, theta)
    /\ UNCHANGED <<treeVars, geomVars, opacity, paintVars, shapeVars, alive>>

GObject_scale(th, o, sx, sy) ==
    /\ transformed' = [transformed EXCEPT ![o] = TRUE]
    /\ sinceReset' = [sinceReset EXCEPT ![o] = TRUE]
    /\ ObjRepainted("scale", th, o, <<sx, sy>>)
    /\ UNCHANGED <<treeVars, geomVars, opacity, paintVars, shapeVars, alive>>

GObject_resetTransform(th, o) ==
    /\ transformed' = [transformed EXCEPT ![o] = FALSE]
    /\ sinceReset' = [sinceReset EXCEPT ![o] = FALSE]
    /\ ObjRepainted("resetTransform", th, o, NULL)
    /\ UNCHANGED <<treeVars, geomVars, opacity, paintVars, shapeVars, alive>>

\* a variant with a fault: only the lower end of the range is checked
GObject_setOpacity_noUpper(th, o, value) ==
    IF value < 0 THEN Throw("setOpacity", o, value)
    ELSE /\ opacity' = [opacity EXCEPT ![o] = value]
         /\ ObjRepainted("setOpacity", th, o, value)
         /\ UNCHANGED <<treeVars, geomVars, transformed, sinceReset, paintVars, shapeVars, alive>>

GObject_setOpacity(th, o, value) ==
    IF ~inRange(value, 0, OpacitySteps) THEN Throw("setOpacity", o, value)
    ELSE /\ opacity' = [opacity EXCEPT ![o] = value]
         /\ ObjRepainted("setOpacity", th, o, value)
         /\ UNCHANGED <<treeVars, geomVars, transformed, sinceReset, paintVars, shapeVars, alive>>

\* a const member function called by the client: nothing changes but the
\* history, which keeps the arguments and the result
Query(op, o, arg, res) ==
    /\ Record(op, o, arg, TRUE, <<>>, NoEffect, res)
    /\ UNCHANGED <<treeVars, geomVars, attrVars, paintVars, shapeVars, alive>>

\* ------------------------------------------------------------------ GPolygon
\* a vertex is <<x, y>>; indices of the source are 0-based
QPointF(px, py) == <<px, py>>

\* a < num / den for den # 0, without rounding
LessThanQuotient(a, num, den) == IF den > 0 THEN a * den < num ELSE a * den > num

\* the test of one edge (x0, y0) -> (x1, y1) in GPolygon::contains
Crosses(x0, y0, x1, y1, px, py) ==
    /\ (y0 > py) # (y1 > py)
    /\ LessThanQuotient(px - x0, (x1 - x0) * (py - y0), y1 - y0)

\* a variant with a fault: the edge back to the first vertex is left out
RECURSIVE openLoop(_, _, _, _, _, _)
openLoop(v, n, i, p0, px, py) ==
    IF i > n - 1 THEN 0
    ELSE LET p1 == v[(i % n) + 1]
         IN  (IF Crosses(p0[1], p0[2], p1[1], p1[2], px, py) THEN 1 ELSE 0)
                 + openLoop(v, n, i + 1, p1, px, py)

GPolygon_contains_open(v, px, py) ==
    IF Len(v) < 2 THEN FALSE
    ELSE LET n == IF v[1] = v[Len(v)] THEN Len(v) - 1 ELSE Len(v)
         IN  openLoop(v, n, 1, v[1], px, py) % 2 = 1

\* the loop of GPolygon::contains from index i on: the number of crossings
RECURSIVE crossingsLoop(_, _, _, _, _, _)
crossingsLoop(v, n, i, p0, px, py) ==
    IF i > n THEN 0
    ELSE LET p1 == v[(i % n) + 1]
         IN  (IF Crosses(p0[1], p0[2], p1[1], p1[2], px, py) THEN 1 ELSE 0)
                 + crossingsLoop(v, n, i + 1, p1, px, py)

\* GPolygon::contains for the vertex list v
GPolygon_contains(v, px, py) ==
    IF Len(v) < 2 THEN FALSE
    ELSE LET n == IF v[1] = v[Len(v)] THEN Len(v) - 1 ELSE Len(v)
         IN  crossingsLoop(v, n, 1, v[1], px, py) % 2 = 1

\* the loop of GPolygon::getBounds; acc = <<xMin, yMin, xMax, yMax>>
RECURSIVE extentLoop(_, _, _)
extentLoop(v, i, acc) ==
    IF i >= Len(v) THEN acc
    ELSE LET px == v[i + 1][1]
             py == v[i + 1][2]
         IN  extentLoop(v, i + 1,
                 <<IF i = 0 \/ px < acc[1] THEN px ELSE acc[1],
                   IF i = 0 \/ py < acc[2] THEN py ELSE acc[2],
                   IF i = 0 \/ px > acc[3] THEN px ELSE acc[3],
                   IF i = 0 \/ py > acc[4] THEN py ELSE acc[4]>>)

GPolygon_getBounds(o) ==
    LET m == extentLoop(vertices[o], 0, <<0, 0, 0, 0>>)
    IN  GRectangle(m[1] + getX(o), m[2] + getY(o), m[3] - m[1], m[4] - m[2])

GPolygon_getHeight(o) == GPolygon_getBounds(o).height

\* as in the source: the height of the bounds
GPolygon_getWidth(o) == GPolygon_getBounds(o).height

\* GObject::getSize of a GPolygon: the size of its getBounds()
GPolygon_getSize(o) == <<GPolygon_getBounds(o).width, GPolygon_getBounds(o).height>>

GPolygon_addVertex(th, o, px, py) ==
    /\ Len(vertices[o]) < MaxVertices
    /\ poly_cx' = [poly_cx EXCEPT ![o] = px]
    /\ poly_cy' = [poly_cy EXCEPT ![o] = py]
    /\ vertices' = [vertices EXCEPT ![o] = Append(@, QPointF(px, py))]
    /\ ObjRepainted("addVertex", th, o, <<px, py>>)
    /\ UNCHANGED <<treeVars, geomVars, attrVars, paintVars, lineVars, arcVars,
                   corner, qimage, alive>>

\* GPolygon::addEdge: addVertex(_cx + dx, _cy + dy).  _cx and _cy are set by
\* addVertex only; before the first one they hold no stored value, and the
\* new vertex can be any point.
GPolygon_addEdge(th, o, ddx, ddy) ==
    \E px \in PolyCoords, py \in PolyCoords :
        /\ poly_cx[o] # Indeterminate => (px = poly_cx[o] + ddx /\ py = poly_cy[o] + ddy)
        /\ GPolygon_addVertex(th, o, px, py)

\* GPolygon::setVertex, for an index the vector has
GPolygon_setVertex(th, o, i, px, py) ==
    /\ i >= 0 /\ i < Len(vertices[o])
    /\ vertices' = [vertices EXCEPT ![o][i + 1] = QPointF(px, py)]
    /\ ObjRepainted("setVertex", th, o, <<i, px, py>>)
    /\ UNCHANGED <<treeVars, geomVars, attrVars, paintVars, lineVars, poly_cx,
                   poly_cy, arcVars, corner, qimage, alive>>

GPolygon_clear(th, o) ==
    /\ vertices' = [vertices EXCEPT ![o] = <<>>]
    /\ ObjRepainted("clear", th, o, NULL)
    /\ UNCHANGED <<treeVars, geomVars, attrVars, paintVars, lineVars, poly_cx,
                   poly_cy, arcVars, corner, qimage, alive>>

\* --------------------------------------------------------------------- GLine
dsq(x0, y0, x1, y1) == (x1 - x0) * (x1 - x0) + (y1 - y0) * (y1 - y0)

abs(a) == IF a < 0 THEN -a ELSE a

\* floatingPointEqual (gmath.h), for whole numbers
floatingPointEqual(a, b) == a = b

GLine_getEndX(o) == getX(o) + line_dx[o]
GLine_getEndY(o) == getY(o) + line_dy[o]
GLine_getWidth(o) == abs(line_dx[o])
GLine_getHeight(o) == abs(line_dy[o])

\* GLine::contains.  Comparisons with the tolerance are made on doubled
\* values and squared distances on fourfold ones.  With u = num / den the
\* squared distance from (x, y) to (x0 + u (x1 - x0), y0 + u (y1 - y0)) of
\* the last test is cross * cross / den, which keeps the numbers small.
GLine_contains(o, px, py) ==
    LET x0 == getX(o)
        y0 == getY(o)
        x1 == x0 + line_dx[o]
        y1 == y0 + line_dy[o]
        tSquared4 == LINE_TOLERANCE_2 * LINE_TOLERANCE_2
        cross == (px - x0) * (y1 - y0) - (py - y0) * (x1 - x0)
        den == dsq(x0, y0, x1, y1)
    IN  IF 4 * dsq(px, py, x0, y0) < tSquared4 THEN TRUE
        ELSE IF 4 * dsq(px, py, x1, y1) < tSquared4 THEN TRUE
        ELSE IF 2 * px < 2 * min(x0, x1) - LINE_TOLERANCE_2 THEN FALSE
        ELSE IF 2 * px > 2 * max(x0, x1) + LINE_TOLERANCE_2 THEN FALSE
        ELSE IF 2 * py < 2 * min(y0, y1) - LINE_TOLERANCE_2 THEN FALSE
        ELSE IF 2 * py > 2 * max(y0, y1) + LINE_TOLERANCE_2 THEN FALSE
        ELSE IF floatingPointEqual(x0 - x1, 0) /\ floatingPointEqual(y0 - y1, 0) THEN FALSE
        ELSE 4 * cross * cross < tSquared4 * den

\* a variant with a fault: the box always starts at the start point
GLine_getBounds_fromStart(o) ==
    GRectangle(getX(o), getY(o), GLine_getWidth(o), GLine_getHeight(o))

GLine_getBounds(o) ==
    LET x0 == IF line_dx[o] < 0 THEN getX(o) + line_dx[o] ELSE getX(o)
        y0 == IF line_dy[o] < 0 THEN getY(o) + line_dy[o] ELSE getY(o)
    IN  GRectangle(x0, y0, GLine_getWidth(o), GLine_getHeight(o))

GLine_setEndPoint(th, o, px, py) ==
    /\ line_dx' = [line_dx EXCEPT ![o] = px - getX(o)]
    /\ line_dy' = [line_dy EXCEPT ![o] = py - getY(o)]
    /\ ObjRepainted("setEndPoint", th, o, <<px, py>>)
    /\ UNCHANGED <<treeVars, geomVars, attrVars, paintVars, polyVars, arcVars,
                   corner, qimage, alive>>

\* the end point is kept where it is, then setLocation(x, y)
GLine_setStartPoint(th, o, px, py) ==
    /\ line_dx' = [line_dx EXCEPT ![o] = @ + getX(o) - px]
    /\ line_dy' = [line_dy EXCEPT ![o] = @ + getY(o) - py]
    /\ x' = [x EXCEPT ![o] = px]
    /\ y' = [y EXCEPT ![o] = py]
    /\ ObjRepainted("setStartPoint", th, o, <<px, py>>)
    /\ UNCHANGED <<treeVars, width, height, attrVars, paintVars, polyVars, arcVars,
                   corner, qimage, alive>>

\* ---------------------------------------------------------------------- GArc
\* fmod for a dividend that is not negative
fmod(a, b) == a % b

\* GArc::containsAngle, theta in degrees
GArc_containsAngle(o, theta) ==
    LET start0 == min(start[o], start[o] + sweep[o])
        sweep0 == abs(sweep[o])
        theta1 == IF theta < 0 THEN 360 - fmod(-theta, 360) ELSE fmod(theta, 360)
        start1 == IF start0 < 0 THEN 360 - fmod(-start0, 360) ELSE fmod(start0, 360)
    IN  IF sweep0 >= 360 THEN TRUE
        ELSE IF start1 + sweep0 > 360
             THEN theta1 >= start1 \/ theta1 <= start1 + sweep0 - 360
             ELSE theta1 >= start1 /\ theta1 <= start1 + sweep0

\* atan2(u, v) * 180 / PI for u = un / ud and v = vn / vd with ud, vd > 0.
\* The eight directions that are multiples of 45 degrees are exact; any
\* other direction is given as the angle 22 or 67 degrees into its
\* quadrant, which compares with every multiple of 45 as the true angle
\* does.  A zero u is the -0.0 that -dy / ry yields for dy = 0.
atan2deg(un, ud, vn, vd) ==
    LET a == abs(un) * vd
        b == abs(vn) * ud
        acute == IF a = 0 THEN 0 ELSE IF b = 0 THEN 90
                 ELSE IF a = b THEN 45 ELSE IF a < b THEN 22 ELSE 67
        half == IF vn >= 0 THEN acute ELSE 180 - acute
    IN  IF un = 0 THEN (IF vn >= 0 THEN 0 ELSE -180)
        ELSE IF un > 0 THEN half ELSE -half

\* GObject::isFilled
isFilled(o) == fillFlag[o]

\* GArc::contains.  rx and ry are kept doubled (the width and the height),
\* r is the quotient rnum / rden, and t is 2 ARC_TOLERANCE / (rx + ry).
GArc_contains(o, px, py) ==
    LET rx2 == getWidth(o)
        ry2 == getHeight(o)
        dx2 == 2 * px - (2 * getX(o) + rx2)
        dy2 == 2 * py - (2 * getY(o) + ry2)
        rnum == dx2 * dx2 * ry2 * ry2 + dy2 * dy2 * rx2 * rx2
        rden == rx2 * rx2 * ry2 * ry2
    IN  IF floatingPointEqual(rx2, 0) \/ floatingPointEqual(ry2, 0) THEN FALSE
        ELSE IF isFilled(o) /\ rnum > rden THEN FALSE
        ELSE IF ~isFilled(o) /\ abs(rden - rnum) * (rx2 + ry2) > 2 * ARC_TOLERANCE_2 * rden
             THEN FALSE
        ELSE GArc_containsAngle(o, atan2deg(-dy2, ry2, dx2, rx2))

GArc_setStartAngle(th, o, angle) ==
    /\ start' = [start EXCEPT ![o] = angle]
    /\ ObjRepainted("setStartAngle", th, o, angle)
    /\ UNCHANGED <<treeVars, geomVars, attrVars, paintVars, lineVars, polyVars,
                   sweep, fillFlag, corner, qimage, alive>>

GArc_setSweepAngle(th, o, angle) ==
    /\ sweep' = [sweep EXCEPT ![o] = angle]
    /\ ObjRepainted("setSweepAngle", th, o, angle)
    /\ UNCHANGED <<treeVars, geomVars, attrVars, paintVars, lineVars, polyVars,
                   start, fillFlag, corner, qimage, alive>>

GObject_setFilled(th, o, flag) ==
    /\ fillFlag' = [fillFlag EXCEPT ![o] = flag]
    /\ ObjRepainted("setFilled", th, o, flag)
    /\ UNCHANGED <<treeVars, geomVars, attrVars, paintVars, lineVars, polyVars,
                   start, sweep, corner, qimage, alive>>

\* ---------------------------------------------------------- GOval, GRoundRect
\* GOval::contains, rx and ry doubled
GOval_contains(o, px, py) ==
    LET rx2 == getWidth(o)
        ry2 == getHeight(o)
        dx2 == 2 * px - (2 * getX(o) + rx2)
        dy2 == 2 * py - (2 * getY(o) + ry2)
    IN  IF floatingPointEqual(rx2, 0) \/ floatingPointEqual(ry2, 0) THEN FALSE
        ELSE dx2 * dx2 * ry2 * ry2 + dy2 * dy2 * rx2 * rx2 <= rx2 * rx2 * ry2 * ry2

getRightX(o) == getX(o) + getWidth(o)
getBottomY(o) == getY(o) + getHeight(o)

\* the values GRoundRect::contains works with: a and b doubled, dx and dy,
\* and whether the corner test (line 1413) is reached
GRoundRect_corner(o, px, py) ==
    LET a2 == min(corner[o], getWidth(o))
        b2 == min(corner[o], getHeight(o))
        ddx == min(abs(px - getX(o)), abs(px - getRightX(o)))
        ddy == min(abs(py - getY(o)), abs(py - getBottomY(o)))
    IN  [a2 |-> a2, b2 |-> b2, dx |-> ddx, dy |-> ddy,
         reached |-> /\ GRectangle_contains(GObject_getBounds(o), px, py)
                     /\ ~(2 * ddx > a2 \/ 2 * ddy > b2)]

\* the corner test divides by a * a and by b * b
GRoundRect_dividesByZero(o, px, py) ==
    LET k == GRoundRect_corner(o, px, py)
    IN  k.reached /\ (k.a2 = 0 \/ k.b2 = 0)

\* GRoundRect::contains: the results the call can have.  A division by
\* zero is undefined, so either result can follow it.
GRoundRect_contains(o, px, py) ==
    LET k == GRoundRect_corner(o, px, py)
    IN  IF ~GRectangle_contains(GObject_getBounds(o), px, py) THEN {FALSE}
        ELSE IF ~k.reached THEN {TRUE}
        ELSE IF k.a2 = 0 \/ k.b2 = 0 THEN BOOLEAN
        ELSE {(2 * k.dx - k.a2) * (2 * k.dx - k.a2) * k.b2 * k.b2
                 + (2 * k.dy - k.b2) * (2 * k.dy - k.b2) * k.a2 * k.a2
                 <= k.a2 * k.a2 * k.b2 * k.b2}

\* require::nonNegative (require.h)
nonNegative(value) == value >= 0

GRoundRect_setCorner(th, o, value) ==
    IF ~nonNegative(value) THEN Throw("setCorner", o, value)
    ELSE /\ corner' = [corner EXCEPT ![o] = value]
         /\ ObjRepainted("setCorner", th, o, value)
         /\ UNCHANGED <<treeVars, geomVars, attrVars, paintVars, lineVars, polyVars,
                        arcVars, qimage, alive>>

\* -------------------------------------------------------------------- GImage
\* require::inRange2D (require.h): 0 <= x <= maxX and 0 <= y <= maxY
inRange2D(px, py, maxX, maxY) == inRange(px, 0, maxX) /\ inRange(py, 0, maxY)

\* GImage::getPixel.  The QImage keeps the size it was made with, whatever
\* _width and _height have become: QImage::pixel outside of it has no
\* defined result, and neither has reading a pixel nothing was stored in.
GImage_getPixel(o, px, py) ==
    IF ~inRange2D(px, py, getWidth(o) - 1, getHeight(o) - 1)
    THEN Throw("getPixel", o, <<px, py>>)
    ELSE \E rgb \in Rgb :
            /\ (<<px, py>> \in Pixels /\ qimage[o][<<px, py>>] # Indeterminate) =>
                   rgb = qimage[o][<<px, py>>]
            /\ Query("getPixel", o, <<px, py>>, rgb)

\* GImage::setPixel: the coordinates go to QImage::setPixel as they are.
\* Outside of the QImage the call has no defined result: it is ignored, or
\* the process is killed.
GImage_setPixel(o, px, py, rgb) ==
    /\ Record("setPixel", o, <<px, py, rgb>>, TRUE, <<>>, NoEffect, NULL)
    /\ IF <<px, py>> \in Pixels
       THEN /\ qimage' = [qimage EXCEPT ![o][<<px, py>>] = rgb]
            /\ UNCHANGED alive
       ELSE /\ UNCHANGED qimage
            /\ alive' \in BOOLEAN
    /\ UNCHANGED <<treeVars, geomVars, attrVars, paintVars, lineVars, polyVars,
                   arcVars, corner>>

\* ------------------------------------------------- the widget and its thread
GCompound_setAutoRepaint(c, flag) ==
    /\ autoRepaint' = [autoRepaint EXCEPT ![c] = flag]
    /\ Record("setAutoRepaint", c, flag, TRUE, <<>>, NoEffect, NULL)
    /\ UNCHANGED <<treeVars, geomVars, attrVars, widget, shapeVars, alive>>

GCompound_setWidget(c, w) ==
    /\ widget' = [widget EXCEPT ![c] = w]
    /\ Record("setWidget", c, w, TRUE, <<>>, NoEffect, NULL)
    /\ UNCHANGED <<treeVars, geomVars, attrVars, autoRepaint, shapeVars, alive>>

\* The Qt GUI thread runs the closure at the head of its queue: the body
\* _widget->repaint(...) of the lambda in GCompound::repaint / repaintRegion.
\* this->_widget is read when the closure runs; when it is null by then the
\* call through it is undefined: the process is killed, or goes on with
\* nothing painted.  last.ok tells whether the widget was there.
GThread_run ==
    /\ alive
    /\ guiQueue # <<>>
    /\ LET r == Head(guiQueue)
       IN  /\ guiQueue' = Tail(guiQueue)
           /\ last' = [op |-> "run", obj |-> r.c, arg |-> r.args, ok |-> widget[r.c],
                       reqs |-> <<>>, enq |-> <<>>, res |-> NULL,
                       paint |-> IF widget[r.c]
                                 THEN <<Request(GuiThread, r.c, r.args)>> ELSE <<>>]
           /\ alive' \in (IF widget[r.c] THEN {TRUE} ELSE BOOLEAN)
    /\ UNCHANGED <<treeVars, geomVars, attrVars, paintVars, shapeVars>>

\* ------------------------------------------------------------ specification
\* the state after the client has constructed its GRects and GCompounds,
\* GArc(1, 1, 0, 90), GLine(0, 0, 0, 0), GPolygon(), GOval(0, 0, 1, 1),
\* GRoundRect(0, 0, 1, 1, 1) and GImage(ImageSize, ImageSize), whose fresh
\* QImage holds no stored pixel
Init ==
    /\ contents = [c \in Compounds |-> <<>>]
    /\ parent = [o \in Objs |-> NULL]
    /\ x = [o \in Objs |-> 0]
    /\ y = [o \in Objs |-> 0]
    /\ width = [o \in Objs |-> IF o \in Compounds \cup Lines \cup Polygons THEN 0
                              ELSE IF o \in Images THEN ImageSize ELSE 1]
    /\ height = [o \in Objs |-> IF o \in Compounds \cup Lines \cup Polygons THEN 0
                               ELSE IF o \in Images THEN ImageSize ELSE 1]
    /\ transformed = [o \in Objs |-> FALSE]
    /\ opacity = [o \in Objs |-> OpacitySteps]
    /\ autoRepaint = [c \in Compounds |-> TRUE]
    /\ widget = [c \in Compounds |-> FALSE]
    /\ guiQueue = <<>>
    /\ alive = TRUE
    /\ sinceReset = [o \in Objs |-> FALSE]
    /\ last = [op |-> "new", obj |-> NULL, arg |-> NULL, ok |-> TRUE, reqs |-> <<>>,
               paint |-> <<>>, enq |-> <<>>, res |-> NULL]
    /\ line_dx = [o \in Lines |-> 0]
    /\ line_dy = [o \in Lines |-> 0]
    /\ vertices = [o \in Polygons |-> <<>>]
    /\ poly_cx = [o \in Polygons |-> Indeterminate]
    /\ poly_cy = [o \in Polygons |-> Indeterminate]
    /\ start = [o \in Arcs |-> 0]
    /\ sweep = [o \in Arcs |-> 90]
    /\ fillFlag = [o \in Objs |-> FALSE]
    /\ corner = [o \in RoundRects |-> 1]
    /\ qimage = [o \in Images |-> [p \in Pixels |-> Indeterminate]]

\* Containers of GRects and their z-order: any thread calls any GCompound
\* method on any container with any GRect (or nullptr), and any GObject
\* z-order method on any GRect.
Next ==
    \E th \in Threads :
          \/ \E c \in Compounds :
                \/ \E gobj \in Shapes \cup {NULL} : GCompound_add(th, c, gobj)
                \/ \E gobj \in Shapes \cup {NULL} : GCompound_remove(th, c, gobj)
                \/ \E index \in -1..MaxLen : GCompound_removeAt(th, c, index)
                \/ GCompound_removeAll(th, c)
                \/ \E gobj \in Shapes \cup {NULL} : GCompound_sendBackward(th, c, gobj)
                \/ \E gobj \in Shapes \cup {NULL} : GCompound_sendForward(th, c, gobj)
                \/ \E gobj \in Shapes \cup {NULL} : GCompound_sendToBack(th, c, gobj)
                \/ \E gobj \in Shapes \cup {NULL} : GCompound_sendToFront(th, c, gobj)
          \/ \E o \in Shapes :
                \/ GObject_sendBackward(th, o)
                \/ GObject_sendForward(th, o)
                \/ GObject_sendToBack(th, o)
                \/ GObject_sendToFront(th, o)

Spec == Init /\ [][Next]_vars

\* Nested containers whose GRects move: bounds and hit testing.
NextGeom ==
    \E th \in Threads :
          \/ \E c \in Compounds :
                \/ \E gobj \in Shapes \cup Compounds \cup {NULL} :
                      /\ Vector_size(contents[c]) < GeomLen
                      /\ GCompound_add(th, c, gobj)
                \/ \E gobj \in Shapes \cup {NULL}, px \in Coords :
                      /\ Vector_size(contents[c]) < GeomLen
                      /\ GCompound_add_at(th, c, gobj, px, IF gobj = NULL THEN 0 ELSE getY(gobj))
                \/ \E gobj \in Shapes \cup Compounds : GCompound_remove(th, c, gobj)
                \/ \E gobj \in Shapes \cup Compounds : GCompound_sendToFront(th, c, gobj)
          \/ \E o \in Shapes, px \in Coords : GObject_setX(th, o, px)

SpecGeom == Init /\ [][NextGeom]_vars

\* The size and the transform of the GArc.
NextAttr ==
    \E th \in Threads, o \in Arcs :
          \/ \E w \in Coords, h \in Coords : GObject_setSize(th, o, w, h)
          \/ \E w \in Coords : GObject_setWidth(th, o, w)
          \/ \E h \in Coords : GObject_setHeight(th, o, h)
          \/ \E px \in Coords, py \in Coords, w \in Coords, h \in Coords :
                GObject_setBounds(th, o, px, py, w, h)
          \/ \E px \in Coords, py \in Coords, w \in Coords, h \in Coords :
                GArc_setFrameRectangle(th, o, px, py, w, h)
          \/ \E theta \in {0, 90} : GObject_rotate(th, o, theta)
          \/ \E sf \in {1, 2} : GObject_scale(th, o, sf, sf)
          \/ GObject_resetTransform(th, o)

SpecAttr == Init /\ [][NextAttr]_vars

\* The opacity of GRects and containers, nested or not.
NextOpacity ==
    \E th \in Threads :
          \/ \E c \in Compounds :
                \/ \E gobj \in Shapes \cup Compounds :
                      /\ Vector_size(contents[c]) < SmallLen
                      /\ GCompound_add(th, c, gobj)
                \/ \E gobj \in Shapes \cup Compounds : GCompound_remove(th, c, gobj)
          \/ \E o \in Shapes \cup Compounds, value \in -1..(OpacitySteps + 1) :
                GObject_setOpacity(th, o, value)

SpecOpacity == Init /\ [][NextOpacity]_vars

\* Containers, nested or not, with and without a widget: the clients' calls
\* and the Qt GUI thread running what was queued for it.
NextPaint ==
    \/ \E th \in Threads :
          \/ \E c \in Compounds :
                \/ \E gobj \in Shapes \cup Compounds :
                      /\ Vector_size(contents[c]) < SmallLen
                      /\ GCompound_add(th, c, gobj)
                \/ \E gobj \in Shapes \cup Compounds : GCompound_remove(th, c, gobj)
          \/ \E o \in Shapes, px \in {0} : GObject_setX(th, o, px)
    \/ \E c \in Compounds :
          \/ \E w \in BOOLEAN : GCompound_setWidget(c, w)
          \/ \E flag \in BOOLEAN : GCompound_setAutoRepaint(c, flag)
    \/ GThread_run

SpecPaint == Init /\ [][NextPaint]_vars

\* The vertices of the GPolygon, on a grid of step 5, and hit tests of it.

NextPolygon ==
    \E th \in Threads, o \in Polygons :
          \/ \E px \in PolyCoords, py \in PolyCoords : GPolygon_addVertex(th, o, px, py)
          \/ GPolygon_clear(th, o)
          \/ \E px \in {5, 15}, py \in {5} :
                Query("contains", o, <<px, py>>, GPolygon_contains(vertices[o], px, py))

SpecPolygon == Init /\ [][NextPolygon]_vars

\* Every way of changing the vertices of the GPolygon, for lists one shorter.
NextPolySize ==
    \E th \in Threads, o \in Polygons :
          \/ \E px \in PolyCoords, py \in PolyCoords :
                /\ Len(vertices[o]) < MaxVertices - 1
                /\ GPolygon_addVertex(th, o, px, py)
          \/ \E ddx \in {-5, 0, 5}, ddy \in {-5, 0, 5} :
                /\ Len(vertices[o]) < MaxVertices - 1
                /\ GPolygon_addEdge(th, o, ddx, ddy)
          \/ \E i \in 0..(MaxVertices - 1), px \in PolyCoords, py \in PolyCoords :
                GPolygon_setVertex(th, o, i, px, py)
          \/ GPolygon_clear(th, o)

SpecPolySize == Init /\ [][NextPolySize]_vars

\* The end points of the GLine, on the same grid, and hit tests of it.
\* A move is left out when it would carry the end point out of LineReach.
LineReach == (-5)..(5 * (MaxCoord + 1))

NextLine ==
    \E th \in Threads, o \in Lines :
          \/ \E px \in PolyCoords, py \in PolyCoords : GLine_setStartPoint(th, o, px, py)
          \/ \E px \in PolyCoords, py \in PolyCoords : GLine_setEndPoint(th, o, px, py)
          \/ \E px \in PolyCoords, py \in PolyCoords :
                /\ px + line_dx[o] \in LineReach
                /\ py + line_dy[o] \in LineReach
                /\ GObject_setLocation(th, o, px, py)
          \/ \E px \in {0, 5}, py \in {0, 5} :
                Query("contains", o, <<px, py>>, GLine_contains(o, px, py))

SpecLine == Init /\ [][NextLine]_vars

\* The angles of the GArc, in steps of 45 degrees, and containsAngle.
Angles == {45 * k : k \in (-MaxEighths)..MaxEighths}
Thetas == {45 * k : k \in (-2 * MaxEighths)..(2 * MaxEighths)}

NextArc ==
    \E th \in Threads, o \in Arcs :
          \/ \E angle \in Angles : GArc_setStartAngle(th, o, angle)
          \/ \E angle \in Angles : GArc_setSweepAngle(th, o, angle)
          \/ \E theta \in {-360, 0, 45} :
                Query("containsAngle", o, theta, GArc_containsAngle(o, theta))

SpecArc == Init /\ [][NextArc]_vars

\* The sizes of the GOval, the GArc and the GRoundRect, and hit tests.
NextEllipse ==
    \E th \in Threads :
          \/ \E o \in Ovals \cup Arcs \cup RoundRects, w \in Coords, h \in Coords :
                GObject_setSize(th, o, w, h)
          \/ \E o \in Arcs, flag \in BOOLEAN : GObject_setFilled(th, o, flag)
          \/ \E o \in RoundRects, value \in (-1)..MaxCoord :
                GRoundRect_setCorner(th, o, value)
          \/ \E o \in Ovals, p \in {0, 1} :
                Query("contains", o, <<p, p>>, GOval_contains(o, p, p))
          \/ \E o \in Arcs, p \in {0, 1} :
                Query("contains", o, <<p, p>>, GArc_contains(o, p, p))
          \/ \E o \in RoundRects, p \in {0, 1} :
                \E res \in GRoundRect_contains(o, p, p) :
                    Query("contains", o, <<p, p>>, res)

SpecEllipse == Init /\ [][NextEllipse]_vars

\* The pixels and the size of the GImage.
NextImage ==
    \E th \in Threads, o \in Images :
          \/ \E px \in (-1)..ImageSize, py \in (-1)..ImageSize : GImage_getPixel(o, px, py)
          \/ \E px \in (-1)..ImageSize, py \in (-1)..ImageSize, rgb \in Rgb :
                GImage_setPixel(o, px, py, rgb)
          \/ \E w \in 1..ImageSize, h \in 1..ImageSize : GObject_setSize(th, o, w, h)

SpecImage == Init /\ [][NextImage]_vars

\* Containers of GRects and the GPolygon, each moved to other anchors.
NextFrame ==
    \E th \in Threads :
          \/ \E c \in Compounds, gobj \in Shapes :
                /\ Vector_size(contents[c]) < SmallLen
                /\ GCompound_add(th, c, gobj)
          \/ \E c \in Compounds, px \in Coords : GObject_setX(th, c, px)
          \/ \E o \in Polygons, px \in {0, 10}, py \in {0, 10} :
                /\ Len(vertices[o]) < MaxVertices - 1
                /\ GPolygon_addVertex(th, o, px, py)
          \/ \E o \in Polygons, px \in {0, 5} : GObject_setX(th, o, px)

SpecFrame == Init /\ [][NextFrame]_vars

\* ================================================================ properties
\* A repaint request is a call of conditionalRepaint or
\* conditionalRepaintRegion: last.reqs lists the ones the last call made.

Occurrences(v, e) == Cardinality({i \in 1..Len(v) : v[i] = e})
Holders(o) == {c \in Compounds : o \in Range(contents[c])}
Others(v, e) == SelectSeq(v, LAMBDA e2 : e2 # e)
Swap(v, i, j) == [k \in 1..Len(v) |-> IF k = i THEN v[j] ELSE IF k = j THEN v[i] ELSE v[k]]
FirstIndex(v, e) == CHOOSE i \in 1..Len(v) : v[i] = e /\ \A j \in 1..(i - 1) : v[j] # e
SetMin(S) == CHOOSE m \in S : \A n \in S : m <= n
SetMax(S) == CHOOSE m \in S : \A n \in S : m >= n

\* C1: after any sequence of add, remove, removeAt, removeAll and z-order
\* calls, every shape is in at most one container, at most once, and its
\* parent is container c exactly when it is in c's child list.
C1_ExclusiveOwnership ==
    \A o \in Objs :
        /\ Cardinality(Holders(o)) <= 1
        /\ \A c \in Compounds :
              /\ Occurrences(contents[c], o) <= 1
              /\ (parent[o] = c) <=> (o \in Range(contents[c]))

\* C2: while a shape's transformed flag is set (no resetTransform in
\* between), no call changes its stored width or height, and setSize,
\* setBounds and setFrameRectangle on it fail.
C2_TransformedSizeFrozen ==
    [][\A o \in Objs :
          (transformed[o] /\ last'.op # "resetTransform") =>
              /\ width'[o] = width[o]
              /\ height'[o] = height[o]
              /\ (last'.obj = o /\ last'.op \in {"setSize", "setBounds"}) => ~last'.ok]_vars

\* C3: setSize(w, h) fails exactly when rotate or scale was called on the
\* shape since its construction or its last resetTransform; a failed call
\* leaves width and height as they were, a successful one stores w and h.
C3_SetSize ==
    [][last'.op = "setSize" =>
          LET o == last'.obj
          IN  /\ (~last'.ok) <=> sinceReset[o]
              /\ ~last'.ok => (width'[o] = width[o] /\ height'[o] = height[o])
              /\ last'.ok => (width'[o] = last'.arg[1] /\ height'[o] = last'.arg[2])]_vars

\* C3 witness: a setSize that failed on a rotated or scaled shape
C3_Witness ==
    /\ last.op = "setSize"
    /\ ~last.ok
    /\ sinceReset[last.obj]

\* C4: setOpacity(o) succeeds iff 0 <= o <= 1; a failed call leaves the
\* opacity as it was and requests no repaint; so 0 <= opacity <= 1 always.
C4_SetOpacity ==
    /\ \A o \in Objs : opacity[o] >= 0 /\ opacity[o] <= OpacitySteps
    /\ [][/\ \A o \in Objs : opacity'[o] >= 0 /\ opacity'[o] <= OpacitySteps
          /\ last'.op = "setOpacity" =>
                /\ last'.ok <=> (last'.arg >= 0 /\ last'.arg <= OpacitySteps)
                /\ last'.ok => opacity'[last'.obj] = last'.arg
                /\ ~last'.ok =>
                      /\ opacity' = opacity
                      /\ last'.reqs = <<>>
                      /\ last'.paint = <<>>
                      /\ guiQueue' = guiQueue]_vars

\* C4 witness: a rejected setOpacity on a shape that has a parent
C4_Witness ==
    /\ last.op = "setOpacity"
    /\ ~last.ok
    /\ parent[last.obj] # NULL

\* C5: for a member s, sendToFront(s) leaves s at the last index and
\* sendToBack(s) at index 0; the other children keep their relative order
\* and the count is unchanged; when s is already at that end the call
\* changes nothing and requests no repaint.
C5_SendToEnd ==
    [][(last'.op \in {"sendToFront", "sendToBack"} /\ last'.arg # NULL) =>
          LET c == last'.obj
              s == last'.arg
              v == contents[c]
              w == contents'[c]
              end(u) == IF last'.op = "sendToFront" THEN u[Len(u)] ELSE u[1]
          IN  s \in Range(v) =>
                 /\ end(w) = s
                 /\ Len(w) = Len(v)
                 /\ Others(w, s) = Others(v, s)
                 /\ end(v) = s => (w = v /\ last'.reqs = <<>>)]_vars

\* C6: sendForward(s) swaps member s, found at index i, with the child at
\* i+1 (nothing when s is last), sendBackward(s) with the child at i-1
\* (nothing when s is first); every other child keeps its index; when s is
\* no member, or the shape has no parent, the list stays and no repaint is
\* requested.
C6_SendOneStep ==
    [][/\ last'.op \in {"GObject::sendForward", "GObject::sendBackward"} =>
             (contents' = contents /\ last'.reqs = <<>>)
       /\ last'.op \in {"sendForward", "sendBackward"} =>
             LET c == last'.obj
                 s == last'.arg
                 v == contents[c]
                 w == contents'[c]
                 n == Len(v)
             IN  /\ \A d \in Compounds \ {c} : contents'[d] = contents[d]
                 /\ s \notin Range(v) => (w = v /\ last'.reqs = <<>>)
                 /\ s \in Range(v) =>
                       LET i == FirstIndex(v, s)
                       IN  IF last'.op = "sendForward"
                           THEN w = (IF i = n THEN v ELSE Swap(v, i, i + 1))
                           ELSE w = (IF i = 1 THEN v ELSE Swap(v, i, i - 1))]_vars

\* C6 witness: a sendForward that moved a child of a three-element list
C6_Witness ==
    /\ last.op = "sendForward"
    /\ last.reqs # <<>>
    /\ Len(contents[last.obj]) = 3
    /\ Cardinality(Range(contents[last.obj])) > 1

\* the points hit tests are asked about
Probes == (-1)..(MaxCoord + 1)

\* C7: getElementAt(p) is the child with the lowest index whose contains(p)
\* is true, and none exactly when GCompound::contains(p) is false; with
\* GRects a then b, both containing p, it is a.
C7_GetElementAt ==
    \A c \in Compounds, px \in Probes, py \in Probes :
        LET v == contents[c]
            hits == {i \in 1..Len(v) : contains(v[i], px, py)}
            res == GCompound_getElementAt(c, px, py)
        IN  /\ res = (IF hits = {} THEN NULL ELSE v[SetMin(hits)])
            /\ (res = NULL) <=> ~GCompound_contains(c, px, py)
            /\ \A a \in Shapes, b \in Shapes :
                  (v = <<a, b>> /\ contains(a, px, py) /\ contains(b, px, py)) => res = a

\* C7 witness: after a z-order change, two different overlapping children,
\* and a point in both
C7_Witness ==
    /\ last.op = "sendToFront"
    /\ last.reqs # <<>>
    /\ \E a \in Shapes, b \in Shapes :
          /\ a # b
          /\ contents[last.obj] = <<a, b>>
          /\ \E px \in Probes, py \in Probes :
                /\ contains(a, px, py)
                /\ contains(b, px, py)
                /\ GCompound_getElementAt(last.obj, px, py) = a

\* C8: the bounds of a non-empty container are the union box of its
\* children's bounds (least left and top edge, greatest right and bottom
\* edge), moved by the container's own (x, y).
C8_UnionBounds ==
    \A c \in Compounds :
        contents[c] # <<>> =>
            LET bs == {getBounds(contents[c][i]) : i \in 1..Len(contents[c])}
                xMin == SetMin({b.x : b \in bs})
                yMin == SetMin({b.y : b \in bs})
                xMax == SetMax({b.x + b.width : b \in bs})
                yMax == SetMax({b.y + b.height : b \in bs})
            IN  GCompound_getBounds(c) =
                    GRectangle(xMin + x[c], yMin + y[c], xMax - xMin, yMax - yMin)

\* C9: the bounds of a container without children are the box of width 0
\* and height 0 at the container's (x, y).
C9_EmptyBounds ==
    \A c \in Compounds :
        contents[c] = <<>> => GCompound_getBounds(c) = GRectangle(x[c], y[c], 0, 0)

\* C10: removeAll() empties the child list and sets the parent of every
\* former child to null; it requests one repaint when the list was not
\* empty and none when it was.
C10_RemoveAll ==
    [][last'.op = "removeAll" =>
          LET c == last'.obj
          IN  /\ contents'[c] = <<>>
              /\ \A o \in Range(contents[c]) : parent'[o] = NULL
              /\ contents[c] # <<>> => last'.reqs = <<Closure(c, <<>>)>>
              /\ contents[c] = <<>> => last'.reqs = <<>>]_vars

\* C10 witness: a removeAll of a non-empty list, after which no GRect has a parent
C10_Witness ==
    /\ last.op = "removeAll"
    /\ last.reqs # <<>>
    /\ \A o \in Shapes : parent[o] = NULL

\* C11: add(shape) with a non-null shape puts it at the last index, leaves
\* the children that were there and their order as they were, and makes the
\* container the shape's parent; add(null) fails and changes no child list
\* and no parent.
C11_Add ==
    [][last'.op = "add" =>
          LET c == last'.obj
              s == last'.arg
          IN  IF s # NULL
              THEN /\ last'.ok
                   /\ Len(contents'[c]) = Len(contents[c]) + 1
                   /\ contents'[c][Len(contents'[c])] = s
                   /\ SubSeq(contents'[c], 1, Len(contents[c])) = contents[c]
                   /\ parent'[s] = c
              ELSE /\ ~last'.ok
                   /\ contents' = contents
                   /\ parent' = parent]_vars

\* C11 witness: an add that put a shape in front of a child already there
C11_Witness ==
    /\ last.op = "add"
    /\ last.ok
    /\ Len(contents[last.obj]) = 2
    /\ contents[last.obj][2] = last.arg
    /\ contents[last.obj][1] # last.arg
    /\ parent[last.arg] = last.obj

\* the closures of a sequence of requests
Closures(rs) == [i \in 1..Len(rs) |-> Closure(rs[i].c, rs[i].args)]

\* C12: a widget is painted only on the GUI thread: inside the call when
\* the caller is on the GUI thread; otherwise the request is queued for the
\* GUI thread, the caller does not paint, and the GUI thread runs what was
\* queued in the order it was queued.
C12_GuiThreadPaints ==
    [][/\ \A i \in 1..Len(last'.paint) : last'.paint[i].thread = GuiThread
       /\ last'.op # "run" =>
             /\ \A i \in 1..Len(last'.enq) : last'.enq[i].thread # GuiThread
             /\ last'.paint = <<>> \/ last'.enq = <<>>
             /\ Closures(last'.paint \o last'.enq) =
                    SelectSeq(last'.reqs, LAMBDA r : autoRepaint[r.c] /\ widget[r.c])
             /\ guiQueue' = guiQueue \o last'.enq
       /\ last'.op = "run" =>
             /\ guiQueue # <<>>
             /\ guiQueue' = Tail(guiQueue)
             /\ Closure(last'.obj, last'.arg) = Closures(guiQueue)[1]
             /\ last'.paint # <<>> =>
                    Closures(last'.paint) = <<Closure(last'.obj, last'.arg)>>]_vars

\* C12 witness: the GUI thread has painted the first of two queued requests
C12_Witness ==
    /\ last.op = "run"
    /\ last.paint # <<>>
    /\ guiQueue # <<>>
    /\ guiQueue[1].thread # GuiThread

\* the calls that change how a container looks, when they change its list,
\* and the calls that change how a shape looks
TreeMutators == {"add", "remove", "removeAt", "removeAll", "sendForward",
                 "sendBackward", "sendToFront", "sendToBack"}
ShapeMutators == {"setLocation", "setBounds", "setSize", "rotate", "scale",
                  "resetTransform", "setOpacity"}

\* C13: a successful appearance-changing call on a shape or on a nested
\* container whose outermost container has a widget and auto-repaint on
\* makes a repaint request on that outermost container's widget.
C13_RepaintReachesRoot ==
    [][(/\ \/ last'.op \in TreeMutators /\ contents' # contents
           \/ last'.op \in ShapeMutators
        /\ last'.ok
        /\ parent[last'.obj] # NULL) =>
          LET root == rootOf(last'.obj)
          IN  (widget[root] /\ autoRepaint[root]) =>
                  \E i \in 1..Len(last'.paint \o last'.enq) :
                      (last'.paint \o last'.enq)[i].c = root]_vars

\* C20: the GUI thread never runs a queued closure of a container whose
\* widget is absent by then.
C20_QueuedWidgetPresent ==
    ~(last.op = "run" /\ ~last.ok)

\* the vertex list v started k places later
Rotated(v, k) == [i \in 1..Len(v) |-> v[((i - 1 + k) % Len(v)) + 1]]

Square == <<QPointF(0, 0), QPointF(10, 0), QPointF(10, 10), QPointF(0, 10)>>

\* C14: GPolygon::contains gives the same result for every cyclic rotation
\* of the vertex list, and for the list with a copy of its first vertex
\* appended; for the square (0,0),(10,0),(10,10),(0,10) contains(5,5) is
\* true and contains(15,5) is false.
C14_PolygonContains ==
    \A o \in Polygons, px \in PolyProbes, py \in PolyProbes :
        LET v == vertices[o]
        IN  /\ \A k \in 1..Len(v) :
                  GPolygon_contains(Rotated(v, k), px, py) = GPolygon_contains(v, px, py)
            /\ v # <<>> =>
                  GPolygon_contains(Append(v, v[1]), px, py) = GPolygon_contains(v, px, py)
            /\ v = Square =>
                  (GPolygon_contains(v, 5, 5) /\ ~GPolygon_contains(v, 15, 5))

\* C14 witness: contains(5, 5) was asked of the square and answered true
C14_Witness ==
    /\ last.op = "contains"
    /\ last.obj \in Polygons
    /\ vertices[last.obj] = Square
    /\ last.arg = <<5, 5>>
    /\ last.res = TRUE

\* C15: a GLine whose start and end point are the same point contains no
\* point, that point included.
C15_ZeroLengthLine ==
    \A o \in Lines :
        (line_dx[o] = 0 /\ line_dy[o] = 0) =>
            \A px \in PolyProbes, py \in PolyProbes : ~GLine_contains(o, px, py)

\* the box spanning two points
Spanning(x0, y0, x1, y1) == GRectangle(min(x0, x1), min(y0, y1), abs(x1 - x0), abs(y1 - y0))

C17_ContainsAngle ==
    \A o \in Arcs, theta \in Thetas :
        LET lo == min(start[o], start[o] + sweep[o])
            hi == max(start[o], start[o] + sweep[o])
        IN  GArc_containsAngle(o, theta) <=>
                \E k \in (-MaxEighths)..MaxEighths :
                    (theta + 360 * k >= lo /\ theta + 360 * k <= hi)

\* C18: GOval::contains and GArc::contains of a shape of width 0 or height
\* 0, and GRoundRect::contains where the corner ellipse has a zero axis,
\* are false for every point, and no division by zero is evaluated.
C18_ZeroAxis ==
    \A px \in Probes, py \in Probes :
        /\ \A o \in Ovals :
              (getWidth(o) = 0 \/ getHeight(o) = 0) => ~GOval_contains(o, px, py)
        /\ \A o \in Arcs :
              (getWidth(o) = 0 \/ getHeight(o) = 0) => ~GArc_contains(o, px, py)
        /\ \A o \in RoundRects :
              LET k == GRoundRect_corner(o, px, py)
              IN  (k.a2 = 0 \/ k.b2 = 0) =>
                      /\ ~GRoundRect_dividesByZero(o, px, py)
                      /\ k.reached => GRoundRect_contains(o, px, py) = {FALSE}

\* C19: getPixel(x, y) and setPixel(x, y, rgb) with x outside
\* [0, width - 1] or y outside [0, height - 1], for the width and height
\* the image has at the call, fail, and the pixels are neither read nor
\* changed.
C19_PixelRange ==
    [][\A o \in Images :
          (last'.obj = o /\ last'.op \in {"getPixel", "setPixel"}) =>
              LET px == last'.arg[1]
                  py == last'.arg[2]
              IN  (px < 0 \/ px > getWidth(o) - 1 \/ py < 0 \/ py > getHeight(o) - 1) =>
                      /\ ~last'.ok
                      /\ last'.res = NULL
                      /\ qimage' = qimage]_vars

\* the least and the greatest of the x (k = 1) or y (k = 2) of the vertices
Extent(v, k) == SetMax({v[i][k] : i \in 1..Len(v)}) - SetMin({v[i][k] : i \in 1..Len(v)})

\* C21: for a GPolygon with vertices, getWidth() is the greatest minus the
\* least x of the vertices and getHeight() the greatest minus the least y,
\* and (getWidth(), getHeight()) is getSize() and the size of getBounds().
C21_PolygonSize ==
    \A o \in Polygons :
        /\ vertices[o] # <<>> =>
              /\ GPolygon_getWidth(o) = Extent(vertices[o], 1)
              /\ GPolygon_getHeight(o) = Extent(vertices[o], 2)
        /\ <<GPolygon_getWidth(o), GPolygon_getHeight(o)>> = GPolygon_getSize(o)
        /\ <<GPolygon_getWidth(o), GPolygon_getHeight(o)>> =
              <<GPolygon_getBounds(o).width, GPolygon_getBounds(o).height>>

\* the box r with its four edges
ClosedBox(r, px, py) ==
    /\ px >= r.x
    /\ px <= r.x + r.width
    /\ py >= r.y
    /\ py <= r.y + r.height

\* C22: at any anchor (x, y), every point that contains() accepts lies in
\* the closed box of getBounds(), for a container whose children are
\* GRects and for a GPolygon.
C22_SameFrame ==
    /\ \A c \in Compounds :
          Range(contents[c]) \subseteq Shapes =>
              \A px \in Probes, py \in Probes :
                  GCompound_contains(c, px, py) =>
                      ClosedBox(GCompound_getBounds(c), px, py)
    /\ \A o \in Polygons :
          \A px \in PolyProbes, py \in PolyProbes :
              GPolygon_contains(vertices[o], px, py) =>
                  ClosedBox(GPolygon_getBounds(o), px, py)
====
